---- MODULE Spec2Model ----
(***************************************************************************)
(* Model of .github/actions/health-score/compute_score.py: one run of     *)
(* main(), which calls six metric collectors in sequence, combines their   *)
(* values with the fixed WEIGHTS table, writes health_score_result.json    *)
(* and exits.                                                              *)
(*                                                                         *)
(* The repository, the external tools and the CI endpoint are the          *)
(* environment: the variable `world` holds what each of them would answer  *)
(* during the run, and the collectors are operators of `world`.            *)
(*                                                                         *)
(* Python floats are modelled as reduced fractions [n, d] with d > 0;      *)
(* d = 0 encodes the non-finite floats: 0/0 is nan, 1/0 is inf, -1/0 is    *)
(* -inf.  Finite arithmetic is exact (binary rounding is not modelled).    *)
(*                                                                         *)
(* A run starts in a healthy environment in which the inputs of one        *)
(* collector at a time range over their whole (bounded) domain.            *)
(***************************************************************************)
EXTENDS Integers, Sequences, FiniteSets, TLC

VARIABLES pc, REPO, TOKEN, COVERAGE_PATH, world, out, calls, ran,
          exitStatus, exc, resultFile, stdout

vars == <<pc, REPO, TOKEN, COVERAGE_PATH, world, out, calls, ran,
          exitStatus, exc, resultFile, stdout>>

\* Bounds of the environment.
MaxFindings == 3
MaxPyFiles == 2
MaxVultureLines == 2
MaxRuns == 3
GridDen == 4

\* Python's None (os.getenv of an unset variable, a missing attribute).
None == "<None>"

------------------------------------------------------------------------------
\* Float arithmetic.

RECURSIVE GCD(_, _)
GCD(a, b) == IF b = 0 THEN a ELSE GCD(b, a % b)

Abs(i) == IF i < 0 THEN -i ELSE i
Sign(i) == IF i < 0 THEN -1 ELSE IF i > 0 THEN 1 ELSE 0

Norm(x) ==
    IF x.d = 0 THEN [n |-> Sign(x.n), d |-> 0]
    ELSE LET g == GCD(Abs(x.n), Abs(x.d))
             s == Sign(x.d)
         IN  [n |-> s * (x.n \div g), d |-> s * (x.d \div g)]

F(n, d) == Norm([n |-> n, d |-> d])

NaN == [n |-> 0, d |-> 0]
Inf == [n |-> 1, d |-> 0]
Zero == F(0, 1)
One == F(1, 1)

IsNaN(x) == x.d = 0 /\ x.n = 0

FAdd(a, b) ==
    IF a.d = 0 /\ b.d = 0
    THEN (IF a.n = b.n THEN a ELSE NaN)
    ELSE Norm([n |-> a.n * b.d + b.n * a.d, d |-> a.d * b.d])

FNeg(a) == [n |-> -a.n, d |-> a.d]
FSub(a, b) == FAdd(a, FNeg(b))
FMul(a, b) == Norm([n |-> a.n * b.n, d |-> a.d * b.d])
\* a / b for a finite non-zero b (every divisor of the program is one).
FDiv(a, b) == Norm([n |-> a.n * b.d * Sign(b.n), d |-> a.d * Abs(b.n)])

\* a < b as Python compares floats: False whenever an operand is nan.
FLt(a, b) ==
    /\ ~IsNaN(a)
    /\ ~IsNaN(b)
    /\ IF a.d = 0 /\ b.d = 0 THEN a.n < b.n ELSE a.n * b.d < b.n * a.d

\* Python's max(a, b) keeps a unless b > a; min(a, b) keeps a unless b < a.
PyMax(a, b) == IF FLt(a, b) THEN b ELSE a
PyMin(a, b) == IF FLt(b, a) THEN b ELSE a

\* Python's round(x, k) with p = 10^k: nearest multiple of 1/p, ties to even;
\* nan and the infinities are returned unchanged.
Round(x, p) ==
    IF x.d = 0 THEN x
    ELSE LET s == x.n * p
             q == s \div x.d
             r == s - q * x.d
             up == \/ 2 * r > x.d
                   \/ (2 * r = x.d /\ q % 2 = 1)
         IN  F(IF up THEN q + 1 ELSE q, p)

InUnit(x) == x.d # 0 /\ 0 <= x.n /\ x.n <= x.d

\* float(s) on the attribute texts of the model: the parsed value, or ValueError.
FloatLiterals ==
    "0.87" :> F(87, 100) @@ "0.5" :> F(1, 2) @@ "1.5" :> F(3, 2) @@
    "-0.2" :> F(-1, 5) @@ "0" :> Zero @@ "nan" :> NaN @@ "inf" :> Inf

PyFloat(s) ==
    IF s \in DOMAIN FloatLiterals
    THEN [ok |-> TRUE, val |-> FloatLiterals[s]]
    ELSE [ok |-> FALSE, val |-> NaN]

\* str.lower() on the texts of the model.
UpperCased ==
    "LOW" :> "low" @@ "High" :> "high" @@ "MEDIUM" :> "medium" @@
    "Installation" :> "installation" @@ "USAGE" :> "usage" @@
    "Contributing" :> "contributing"

Lower(s) == IF s \in DOMAIN UpperCased THEN UpperCased[s] ELSE s

\* Python truthiness of an optional string.
Truthy(s) == s # None /\ s # ""

------------------------------------------------------------------------------
\* Results of a collector: it returns (value, evidence) or raises; `ran` lists
\* the subprocesses it started.

Return(value, evidence, procs) ==
    [raised |-> FALSE, value |-> value, evidence |-> evidence, ran |-> procs,
     error |-> None]

Raise(error, procs) ==
    [raised |-> TRUE, value |-> NaN, evidence |-> None, ran |-> procs,
     error |-> error]

------------------------------------------------------------------------------
\* WEIGHTS (in the order the dictionary is iterated).

Metrics == <<"structure", "tests", "dead_code", "security", "docs", "ci">>

WEIGHTS_tests_heavier ==
    [structure |-> F(15, 100), tests |-> F(35, 100), dead_code |-> F(10, 100),
     security |-> F(20, 100), docs |-> F(15, 100), ci |-> F(15, 100)]

WEIGHTS ==
    [structure |-> F(15, 100), tests |-> F(25, 100), dead_code |-> F(10, 100),
     security |-> F(20, 100), docs |-> F(15, 100), ci |-> F(15, 100)]

------------------------------------------------------------------------------
\* score_structure

required ==
    <<"README.md", "LICENSE", ".github", "src", "setup.py", "pyproject.toml">>

score_structure(w) ==
    LET found == Cardinality({i \in 1..Len(required) : required[i] \in w.exists})
        value == FDiv(F(found, 1), F(Len(required), 1))
    IN  Return(value, [found_count |-> found, required |-> Len(required)], <<>>)

------------------------------------------------------------------------------
\* score_tests

NoAttr == "<no line-rate>"
NoElem == "<no coverage element>"

\* A coverage report path: absent; present but ET.parse raises (not XML, a
\* directory, unreadable); or an XML document with the line-rate attribute of
\* its root and of its first nested <coverage> element.
Absent == [kind |-> "absent", root |-> NoAttr, nested |-> NoElem]
Malformed == [kind |-> "malformed", root |-> NoAttr, nested |-> NoElem]
Xml(root, nested) == [kind |-> "xml", root |-> root, nested |-> nested]

NoPct == [some |-> FALSE, v |-> NaN]
Pct(v) == [some |-> TRUE, v |-> v]

cov_files(covpath) ==
    (IF Truthy(covpath) THEN <<covpath>> ELSE <<>>)
        \o <<"coverage.xml", "htmlcov/coverage.xml">>

\* The body of the try block for one existing report: the coverage_pct it
\* assigns (if any), or that it raised.
ParseReport(f) ==
    IF f.kind = "malformed" THEN [raised |-> TRUE, pct |-> NoPct]
    ELSE IF f.root # NoAttr
    THEN LET r == PyFloat(f.root)
         IN  IF r.ok THEN [raised |-> FALSE, pct |-> Pct(FMul(r.val, F(100, 1)))]
             ELSE [raised |-> TRUE, pct |-> NoPct]
    ELSE IF f.nested # NoElem /\ f.nested # NoAttr
    THEN LET r == PyFloat(f.nested)
         IN  IF r.ok THEN [raised |-> FALSE, pct |-> Pct(FMul(r.val, F(100, 1)))]
             ELSE [raised |-> TRUE, pct |-> NoPct]
    ELSE [raised |-> FALSE, pct |-> NoPct]

\* The loop over cov_files from index i: a missing path and a report whose
\* parse raised are passed over, the first report parsed without error ends
\* the loop.
RECURSIVE ScanReports(_, _, _)
ScanReports(files, fs, i) ==
    IF i > Len(files) THEN NoPct
    ELSE IF fs[files[i]].kind = "absent" THEN ScanReports(files, fs, i + 1)
    ELSE LET r == ParseReport(fs[files[i]])
         IN  IF r.raised THEN ScanReports(files, fs, i + 1) ELSE r.pct

\* The fallback: run the suite under coverage, regenerate coverage.xml, parse it.
InstrumentedRun(w) ==
    IF w.covRun # "ok" THEN [pct |-> Zero, ran |-> <<"coverage run">>]
    ELSE IF w.covXml # "ok"
    THEN [pct |-> Zero, ran |-> <<"coverage run", "coverage xml">>]
    ELSE LET f == w.regenerated
             r == PyFloat(IF f.root = NoAttr THEN "0" ELSE f.root)
         IN  [pct |-> IF f.kind = "xml" /\ r.ok THEN FMul(r.val, F(100, 1))
                      ELSE Zero,
              ran |-> <<"coverage run", "coverage xml">>]

\* The instrumented run attempted whatever the search found.
NeedsFallback_always(pct) == TRUE

NeedsFallback(pct) == ~pct.some

score_tests(w, covpath) ==
    LET scanned == ScanReports(cov_files(covpath), w.fs, 1)
        fb == IF NeedsFallback(scanned)
              THEN (IF w.fallback.testsPresent THEN InstrumentedRun(w.fallback)
                    ELSE [pct |-> Zero, ran |-> <<>>])
              ELSE [pct |-> scanned.v, ran |-> <<>>]
        coverage_pct == fb.pct
        value == PyMin(PyMax(FDiv(coverage_pct, F(100, 1)), Zero), One)
    IN  Return(value, [coverage_pct |-> Round(coverage_pct, 100)], fb.ran)

------------------------------------------------------------------------------
\* score_dead_code

\* Lines of vulture's output: l.strip() is non-empty, ":" occurs in l.
Finding == "app.py:3: unused function 'f' (60% confidence)"
VultureLine == {Finding, "", "   ", "no dead code"}
StripNonEmpty(l) == l \notin {"", "   "}
HasColon(l) == l = Finding

RECURSIVE SumLines(_, _)
\* total_lines: an unreadable file is skipped by the inner try.
SumLines(py, i) ==
    IF i > Len(py) THEN 0
    ELSE (IF py[i].readable THEN py[i].lines ELSE 0) + SumLines(py, i + 1)

Max(a, b) == IF a > b THEN a ELSE b

DeadRatio_unclamped(flagged, total_lines) ==
    FDiv(F(flagged * 10, 1), F(Max(total_lines, 1), 1))

DeadRatio(flagged, total_lines) ==
    PyMin(FDiv(F(flagged * 10, 1), F(Max(total_lines, 1), 1)), One)

score_dead_code(w) ==
    LET flagged == Cardinality({i \in 1..Len(w.vulture.out) :
                       StripNonEmpty(w.vulture.out[i]) /\ HasColon(w.vulture.out[i])})
        dead_ratio == IF w.vulture.ok THEN DeadRatio(flagged, SumLines(w.py, 1))
                      ELSE Zero
        value == FSub(One, dead_ratio)
    IN  Return(value, [dead_ratio |-> Round(dead_ratio, 1000)], <<"vulture">>)

------------------------------------------------------------------------------
\* score_security

max_penalty == 10

IssuePenalty_case_sensitive(sev) ==
    IF sev = "low" THEN F(1, 2)
    ELSE IF sev = "medium" THEN F(2, 1)
    ELSE IF sev = "high" THEN F(5, 1)
    ELSE Zero

\* The if/elif chain on issue.get("issue_severity", "").lower().
IssuePenalty(sev) ==
    LET l == Lower(sev)
    IN  IF l = "low" THEN F(1, 2)
        ELSE IF l = "medium" THEN F(2, 1)
        ELSE IF l = "high" THEN F(5, 1)
        ELSE Zero

\* The loop over data["results"] from index i with `penalty` accumulated so
\* far.  A severity that is not a string (JSON null) has no lower(): the
\* loop raises and the penalty keeps what was added before.
RECURSIVE SumFindings(_, _, _)
SumFindings(results, i, penalty) ==
    IF i > Len(results) THEN [raised |-> FALSE, penalty |-> penalty]
    ELSE IF results[i] = None THEN [raised |-> TRUE, penalty |-> penalty]
    ELSE SumFindings(results, i + 1, FAdd(penalty, IssuePenalty(results[i])))

\* Path('.').read_text(...): '.' is the working directory, so the read raises
\* (IsADirectoryError, PermissionError on Windows) whatever the sources hold.
ReadTextOfCwd(w) == [raised |-> TRUE, text |-> ""]

\* The except branch: the exec/eval heuristic, inside its own try.
Heuristic(w, penalty) ==
    LET code == ReadTextOfCwd(w)
    IN  IF code.raised THEN penalty
        ELSE IF w.srcHasEval THEN FAdd(penalty, F(2, 1))
        ELSE penalty

score_security(w) ==
    LET b == w.bandit
        scan == IF b.kind = "results" THEN SumFindings(b.results, 1, Zero)
                ELSE IF b.kind = "no results key" THEN SumFindings(<<>>, 1, Zero)
                ELSE [raised |-> TRUE, penalty |-> Zero]
        penalty == IF scan.raised THEN Heuristic(w, scan.penalty) ELSE scan.penalty
        value == PyMax(Zero, FSub(One, FDiv(penalty, F(max_penalty, 1))))
    IN  Return(value, [penalty |-> penalty], <<"bandit">>)

------------------------------------------------------------------------------
\* score_docs

Sections == <<"installation", "usage", "license", "contributing">>

\* item in text, for a README given as the set of its words, lower-cased.
InText(item, words) == \E x \in words : Lower(x) = item

RECURSIVE CountDocstrings(_, _)
\* The generator inside sum(): open(f) of an unreadable file raises out of it.
CountDocstrings(py, i) ==
    IF i > Len(py) THEN [raised |-> FALSE, n |-> 0]
    ELSE IF ~py[i].readable THEN [raised |-> TRUE, n |-> 0]
    ELSE LET rest == CountDocstrings(py, i + 1)
         IN  [raised |-> rest.raised,
              n |-> rest.n + (IF py[i].head \in {"dq", "sq"} THEN 1 ELSE 0)]

score_docs(w) ==
    LET details == [i \in 1..Len(Sections) |-> InText(Sections[i], w.readme.words)]
        hits == Cardinality({i \in 1..Len(Sections) : details[i]})
        score == IF w.readme.kind = "text" THEN FDiv(F(hits, 1), F(4, 1)) ELSE Zero
        docs == CountDocstrings(w.py, 1)
        doc_ratio == IF Len(w.py) > 0 THEN FDiv(F(docs.n, 1), F(Len(w.py), 1))
                     ELSE Zero
        final == FAdd(FMul(F(6, 10), score), FMul(F(4, 10), doc_ratio))
    IN  IF w.readme.kind = "unreadable" THEN Raise("OSError", <<>>)
        ELSE IF docs.raised THEN Raise("OSError", <<>>)
        ELSE Return(final,
                    [readme_sections |-> IF w.readme.kind = "text" THEN details
                                         ELSE <<>>,
                     doc_ratio |-> Round(doc_ratio, 100)],
                    <<>>)

------------------------------------------------------------------------------
\* score_ci

\* REPO.split("/") on the repository identities of the model.
SplitSlash ==
    "owner/name" :> <<"owner", "name">> @@ "owner" :> <<"owner">> @@
    "org/team/name" :> <<"org", "team", "name">>

\* sum(1 for run in runs if run.get("conclusion") == "success"); a run that
\* is not an object has no get().
RunsWellFormed(runs) == \A i \in 1..Len(runs) : runs[i] # "<not an object>"
Successes(runs) == Cardinality({i \in 1..Len(runs) : runs[i] = "success"})

score_ci(w, token, repo) ==
    IF ~Truthy(token) \/ ~Truthy(repo)
    THEN Return(Zero, [note |-> "no token/repo"], <<>>)
    ELSE IF Len(SplitSlash[repo]) # 2 THEN Raise("ValueError", <<>>)
    ELSE LET h == w.http
         IN  IF h.kind # "runs" THEN
                 IF h.kind = "no workflow_runs key"
                 THEN Return(Zero, [total_runs |-> 0], <<>>)
                 ELSE Return(Zero, [error |-> h.kind], <<>>)
             ELSE IF Len(h.runs) = 0 THEN Return(Zero, [total_runs |-> 0], <<>>)
             ELSE IF ~RunsWellFormed(h.runs)
             THEN Return(Zero, [error |-> "AttributeError"], <<>>)
             ELSE Return(FDiv(F(Successes(h.runs), 1), F(Len(h.runs), 1)),
                         [total_runs |-> Len(h.runs),
                          success |-> Successes(h.runs)],
                         <<>>)

------------------------------------------------------------------------------
\* combine

RECURSIVE WeightedSum(_, _, _, _)
WeightedSum(weights, scores, i, total) ==
    IF i > Len(Metrics) THEN total
    ELSE WeightedSum(weights, scores, i + 1,
                     FAdd(total, FMul(weights[Metrics[i]], scores[Metrics[i]].value)))

combine(scores) == FMul(WeightedSum(WEIGHTS, scores, 1, Zero), F(100, 1))

------------------------------------------------------------------------------
\* The environment of a run.

Range(q) == {q[i] : i \in 1..Len(q)}
SeqsUpTo(S, k) == UNION {[1..n -> S] : n \in 0..k}

ReportPaths == {"reports/cov.xml", "coverage.xml", "htmlcov/coverage.xml"}

ReportStates ==
    {Absent, Malformed, Xml("0.87", NoElem), Xml("nan", NoElem),
     Xml("abc", NoElem), Xml(NoAttr, NoElem), Xml(NoAttr, NoAttr),
     Xml(NoAttr, "1.5")}

RegeneratedStates ==
    {Malformed, Xml("0.5", NoElem), Xml("-0.2", NoElem), Xml("inf", NoElem),
     Xml("nan", NoElem), Xml("abc", NoElem), Xml(NoAttr, NoElem)}

\* What the fallback of score_tests would meet.
Fallbacks ==
    {[testsPresent |-> FALSE, covRun |-> "fail", covXml |-> "fail",
      regenerated |-> Malformed],
     [testsPresent |-> TRUE, covRun |-> "fail", covXml |-> "fail",
      regenerated |-> Malformed],
     [testsPresent |-> TRUE, covRun |-> "ok", covXml |-> "fail",
      regenerated |-> Malformed]}
    \cup {[testsPresent |-> TRUE, covRun |-> "ok", covXml |-> "ok",
           regenerated |-> f] : f \in RegeneratedStates}

PyFile(readable, lines, head) ==
    [readable |-> readable, lines |-> lines, head |-> head]

\* Source files as score_dead_code meets them (their line counts) and as
\* score_docs meets them (the docstring delimiter in their first 200 chars).
PyFilesByLines ==
    {PyFile(TRUE, l, "none") : l \in {0, 5, 40}} \cup {PyFile(FALSE, 0, "none")}

PyFilesByHead ==
    {PyFile(TRUE, 40, h) : h \in {"none", "dq", "sq"}}
        \cup {PyFile(FALSE, 0, "none")}

VultureStates ==
    {[ok |-> FALSE, out |-> <<>>]}
        \cup {[ok |-> TRUE, out |-> o] : o \in SeqsUpTo(VultureLine, MaxVultureLines)}

\* issue_severity of one finding: a text, "" when the key is missing, None
\* when it is not a string.
Severities == {"low", "LOW", "medium", "high", "High", "undefined", "", None}

BanditStates ==
    {[kind |-> k, results |-> <<>>] :
        k \in {"unavailable", "bad json", "not an object", "no results key"}}
        \cup {[kind |-> "results", results |-> r] :
                 r \in SeqsUpTo(Severities, MaxFindings)}

ReadmeStates ==
    {[kind |-> "absent", words |-> {}], [kind |-> "unreadable", words |-> {}]}
        \cup {[kind |-> "text", words |-> x] :
                 x \in SUBSET {"Installation", "USAGE", "license", "Contributing"}}

\* conclusion of one workflow run (None while it is in progress).
Conclusions == {"success", "failure", None, "<not an object>"}

HttpStates ==
    {[kind |-> k, runs |-> <<>>] :
        k \in {"ConnectionError", "Timeout", "JSONDecodeError",
               "AttributeError", "no workflow_runs key"}}
        \cup {[kind |-> "runs", runs |-> r] : r \in SeqsUpTo(Conclusions, MaxRuns)}

Tokens == {None, "", "ghp_token"}
Repos == {None, ""} \cup DOMAIN SplitSlash
CoveragePaths == {None, "", "reports/cov.xml"}

\* A healthy repository with every tool and the network available.
Healthy ==
    [exists |-> Range(required),
     fs |-> [p \in ReportPaths |->
                IF p = "coverage.xml" THEN Xml("0.87", NoElem) ELSE Absent],
     fallback |-> [testsPresent |-> TRUE, covRun |-> "ok", covXml |-> "ok",
                   regenerated |-> Xml("0.5", NoElem)],
     vulture |-> [ok |-> TRUE, out |-> <<>>],
     py |-> <<PyFile(TRUE, 40, "dq")>>,
     bandit |-> [kind |-> "results", results |-> <<>>],
     srcHasEval |-> FALSE,
     readme |-> [kind |-> "text",
                 words |-> {"Installation", "USAGE", "license", "Contributing"}],
     http |-> [kind |-> "runs", runs |-> <<"success">>],
     writable |-> TRUE,
     REPO |-> "owner/name", TOKEN |-> "ghp_token", COVERAGE_PATH |-> None]

\* The run starts in environment e.
StartsIn(e) ==
    /\ world = e
    /\ REPO = e.REPO
    /\ TOKEN = e.TOKEN
    /\ COVERAGE_PATH = e.COVERAGE_PATH

\* The environments explored: Healthy with what one collector (or the report
\* writer) depends on varied over its whole domain.
Environment ==
    \/ \E x \in SUBSET Range(required) : StartsIn([Healthy EXCEPT !.exists = x])
    \/ \E f \in [ReportPaths -> ReportStates], b \in Fallbacks, c \in CoveragePaths :
          StartsIn([Healthy EXCEPT !.fs = f, !.fallback = b, !.COVERAGE_PATH = c])
    \/ \E v \in VultureStates, p \in SeqsUpTo(PyFilesByLines, MaxPyFiles) :
          StartsIn([Healthy EXCEPT !.vulture = v, !.py = p])
    \/ \E b \in BanditStates, e \in BOOLEAN :
          StartsIn([Healthy EXCEPT !.bandit = b, !.srcHasEval = e])
    \/ \E r \in ReadmeStates, p \in SeqsUpTo(PyFilesByHead, MaxPyFiles) :
          StartsIn([Healthy EXCEPT !.readme = r, !.py = p])
    \/ \E h \in HttpStates, t \in Tokens, r \in Repos :
          StartsIn([Healthy EXCEPT !.http = h, !.TOKEN = t, !.REPO = r])
    \/ \E x \in BOOLEAN : StartsIn([Healthy EXCEPT !.writable = x])

------------------------------------------------------------------------------
\* main

NoCalls == [m \in Range(Metrics) |-> 0]

Init ==
    /\ Environment
    /\ pc = "structure"
    /\ out = <<>>
    /\ calls = NoCalls
    /\ ran = <<>>
    /\ exitStatus = -1
    /\ exc = None
    /\ resultFile = <<>>
    /\ stdout = <<>>

\* out[m] = collector(): the call either stores (value, evidence) and goes on
\* to the next statement, or its exception leaves main() and ends the process
\* with status 1.
Call(m, r, next) ==
    /\ calls' = [calls EXCEPT ![m] = @ + 1]
    /\ ran' = ran \o r.ran
    /\ IF r.raised
       THEN /\ pc' = "crashed"
            /\ exc' = r.error
            /\ exitStatus' = 1
            /\ out' = out
       ELSE /\ pc' = next
            /\ out' = (m :> [value |-> r.value, evidence |-> r.evidence]) @@ out
            /\ UNCHANGED <<exc, exitStatus>>
    /\ UNCHANGED <<REPO, TOKEN, COVERAGE_PATH, world, resultFile, stdout>>

main_structure == pc = "structure" /\ Call("structure", score_structure(world), "tests")
main_tests == pc = "tests" /\ Call("tests", score_tests(world, COVERAGE_PATH), "dead_code")
main_dead_code == pc = "dead_code" /\ Call("dead_code", score_dead_code(world), "security")
main_security == pc = "security" /\ Call("security", score_security(world), "docs")
main_docs == pc = "docs" /\ Call("docs", score_docs(world), "ci")
main_ci == pc = "ci" /\ Call("ci", score_ci(world, TOKEN, REPO), "combine")

\* score = combine(out); out['final_score'] = round(score, 2)
main_combine ==
    /\ pc = "combine"
    /\ out' = ("final_score" :> Round(combine(out), 100)) @@ out
    /\ pc' = "report"
    /\ UNCHANGED <<REPO, TOKEN, COVERAGE_PATH, world, calls, ran, exitStatus,
                   exc, resultFile, stdout>>

\* print(json.dumps(out)); write health_score_result.json; print the summary
main_report ==
    /\ pc = "report"
    /\ IF world.writable
       THEN /\ resultFile' = <<out>>
            /\ stdout' = <<out, out["final_score"]>>
            /\ pc' = "exit"
            /\ UNCHANGED <<exc, exitStatus>>
       ELSE /\ stdout' = <<out>>
            /\ pc' = "crashed"
            /\ exc' = "OSError"
            /\ exitStatus' = 1
            /\ UNCHANGED resultFile
    /\ UNCHANGED <<REPO, TOKEN, COVERAGE_PATH, world, out, calls, ran>>

\* sys.exit(0)
main_exit ==
    /\ pc = "exit"
    /\ pc' = "done"
    /\ exitStatus' = 0
    /\ UNCHANGED <<REPO, TOKEN, COVERAGE_PATH, world, out, calls, ran, exc,
                   resultFile, stdout>>

Next ==
    \/ main_structure
    \/ main_tests
    \/ main_dead_code
    \/ main_security
    \/ main_docs
    \/ main_ci
    \/ main_combine
    \/ main_report
    \/ main_exit

Spec == Init /\ [][Next]_vars

------------------------------------------------------------------------------
\* combine() on its own: six values k/GridDen of [0,1] handed to main's
\* combine step.

UnitGrid == {F(k, GridDen) : k \in 0..GridDen}

CombineInit ==
    /\ StartsIn(Healthy)
    /\ pc = "combine"
    /\ \E v \in [Range(Metrics) -> UnitGrid] :
          out = [m \in Range(Metrics) |-> [value |-> v[m], evidence |-> None]]
    /\ calls = [m \in Range(Metrics) |-> 1]
    /\ ran = <<>>
    /\ exitStatus = -1
    /\ exc = None
    /\ resultFile = <<>>
    /\ stdout = <<>>

CombineSpec == CombineInit /\ [][main_combine]_vars

------------------------------------------------------------------------------
\* Properties.

Called(m) == calls[m] >= 1
Returned(m) == m \in DOMAIN out
Halted == pc \in {"done", "crashed"}
StartedBy(m) == \E i \in 1..Len(ran) : ran[i] = m

WeightTotal == WeightedSum(WEIGHTS, [m \in Range(Metrics) |-> [value |-> One]], 1, Zero)
InPercent(x) == x.d # 0 /\ 0 <= x.n /\ x.n <= 100 * x.d

\* C1: with the fixed weight table, whose weights sum to 1, six metric values
\* in [0,1] combine to a score in [0,100], and so does the final_score that
\* main() stores (the score rounded to two decimals).
C1_FinalScoreInRange ==
    /\ WeightTotal = One
    /\ (\A m \in Range(Metrics) : Returned(m) /\ InUnit(out[m].value))
          => /\ InPercent(combine(out))
             /\ Returned("final_score") => InPercent(out["final_score"])

\* All six values 1 and the final score 100: the top of the range is reached.
C1_Witness ==
    /\ Returned("final_score")
    /\ \A m \in Range(Metrics) : out[m].value = One
    /\ out["final_score"] = F(100, 1)

\* C2: every value a collector returned lies in [0,1].
C2_ValuesInUnit ==
    \A m \in Range(Metrics) : Returned(m) => InUnit(out[m].value)

\* C3: a run that has ended has written the report (the six results and
\* final_score) and exited with status 0, and no collector's error reached
\* main().
C3_AlwaysReportsAndExitsZero ==
    Halted => /\ pc = "done"
              /\ exc = None
              /\ exitStatus = 0
              /\ Len(resultFile) = 1
              /\ \A m \in Range(Metrics) \cup {"final_score"} : Returned(m)

RequestFails ==
    \/ world.http.kind \in {"ConnectionError", "Timeout", "JSONDecodeError",
                            "AttributeError"}
    \/ world.http.kind = "runs" /\ ~RunsWellFormed(world.http.runs)

\* C4: score_ci never raises, whatever the repository identity; without a
\* credential or an identity, or when the request fails, its value is 0 and
\* the evidence carries a note or the error.
C4_CiNeverRaises ==
    Called("ci") =>
        /\ Returned("ci")
        /\ (~Truthy(TOKEN) \/ ~Truthy(REPO) \/ RequestFails)
              => /\ out["ci"].value = Zero
                 /\ DOMAIN out["ci"].evidence \in {{"note"}, {"error"}}

\* C5: with the scanner unavailable, the penalty is 2.0 and the value 0.8 if
\* the source holds eval( or exec(, and else the penalty is 0 and the value 1.
C5_EvalFallback ==
    (Returned("security") /\ world.bandit.kind = "unavailable") =>
        IF world.srcHasEval
        THEN out["security"].evidence.penalty = F(2, 1)
             /\ out["security"].value = F(8, 10)
        ELSE out["security"].evidence.penalty = Zero
             /\ out["security"].value = One

WellFormed(b) ==
    \/ b.kind = "no results key"
    \/ b.kind = "results" /\ \A i \in 1..Len(b.results) : b.results[i] # None

CountIn(q, S) == Cardinality({i \in 1..Len(q) : q[i] \in S})

\* Twice the penalty of the findings q.
TwicePenalty(q) ==
    CountIn(q, {"low", "LOW"}) + 4 * CountIn(q, {"medium", "MEDIUM"})
        + 10 * CountIn(q, {"high", "High"})

\* C6: for a well-formed scanner result the penalty is 0.5 per low, 2.0 per
\* medium and 5.0 per high finding, in any letter case, and nothing for any
\* other severity; the value is 1 - penalty/10, and exactly 0 from a penalty
\* of 10 on.
C6_SeverityPenalty ==
    (Returned("security") /\ WellFormed(world.bandit)) =>
        LET p2 == TwicePenalty(world.bandit.results)
        IN  /\ out["security"].evidence.penalty = F(p2, 2)
            /\ out["security"].value = IF p2 >= 20 THEN Zero ELSE F(20 - p2, 20)

\* Findings [low, low, high]: penalty 6.0, value 0.4.
C6_Witness ==
    /\ Returned("security")
    /\ world.bandit.kind = "results"
    /\ world.bandit.results = <<"low", "low", "high">>
    /\ out["security"].evidence.penalty = F(6, 1)
    /\ out["security"].value = F(4, 10)

FindingsOf(v) == CountIn(v.out, {Finding})

\* C7: a detector that is unavailable or errors gives ratio 0 and value 1;
\* one that succeeds gives value 1 - min(1, 10 * findings / total_lines), and
\* on a tree of zero lines the call still returns a value (1 without
\* findings, 0 with).
C7_DeadCodeRatio ==
    Called("dead_code") =>
        /\ Returned("dead_code")
        /\ LET f == FindingsOf(world.vulture)
               t == SumLines(world.py, 1)
               v == out["dead_code"].value
           IN  IF ~world.vulture.ok
               THEN v = One /\ out["dead_code"].evidence.dead_ratio = Zero
               ELSE IF t > 0
               THEN v = IF 10 * f >= t THEN Zero ELSE F(t - 10 * f, t)
               ELSE v = IF f = 0 THEN One ELSE Zero

\* One finding against 40 lines: ratio 0.25, value 0.75.
C7_Witness ==
    /\ Returned("dead_code")
    /\ world.vulture.ok
    /\ FindingsOf(world.vulture) = 1
    /\ SumLines(world.py, 1) = 40
    /\ out["dead_code"].value = F(3, 4)

\* C8: the report paths are tried in the order configured path, coverage.xml,
\* htmlcov/coverage.xml.
Tried ==
    IF COVERAGE_PATH \notin {None, ""}
    THEN <<COVERAGE_PATH, "coverage.xml", "htmlcov/coverage.xml">>
    ELSE <<"coverage.xml", "htmlcov/coverage.xml">>

Exists(p) == world.fs[p].kind # "absent"
NoReport == \A i \in 1..Len(Tried) : ~Exists(Tried[i])
SuiteRun == StartedBy("coverage run")
Numeric == DOMAIN FloatLiterals

\* The instrumented run fails: a command fails, or the regenerated report is
\* not XML or carries a line-rate that is not a number.
InstrumentedFails ==
    LET b == world.fallback
    IN  \/ b.covRun # "ok"
        \/ b.covXml # "ok"
        \/ b.regenerated.kind # "xml"
        \/ b.regenerated.root \notin Numeric \cup {NoAttr}

\* C8 as stated: the suite is run under coverage only if no report exists at
\* any of the paths and tests exist; whenever a report exists at one of the
\* paths no subprocess is run; no report and no tests give 0.0; a failed
\* instrumented run gives 0.0.
C8_ReportMeansNoSubprocess ==
    Called("tests") =>
        /\ SuiteRun => (NoReport /\ world.fallback.testsPresent)
        /\ ~NoReport => ~SuiteRun /\ ~StartedBy("coverage xml")
        /\ (NoReport /\ ~world.fallback.testsPresent) => out["tests"].value = Zero
        /\ (SuiteRun /\ InstrumentedFails) => out["tests"].value = Zero

\* The line-rate text a report carries: its root's, else its nested element's.
RateText(f) == IF f.root # NoAttr THEN f.root ELSE f.nested
ReadsCleanly(f) ==
    f.kind = "xml" /\ RateText(f) \in Numeric \cup {NoAttr, NoElem}
Usable(i) == Exists(Tried[i]) /\ ReadsCleanly(world.fs[Tried[i]])
IsFirstUsable(i) == Usable(i) /\ \A j \in 1..(i - 1) : ~Usable(j)
\* The search obtained a line-rate: the first report, in that order, that
\* exists and is read without error carries one.
Obtained ==
    \E i \in 1..Len(Tried) :
        IsFirstUsable(i) /\ RateText(world.fs[Tried[i]]) \in Numeric

\* C8, amended: the suite is run under coverage exactly when the search
\* obtained no line-rate and tests exist; a line-rate obtained means no
\* subprocess is run and (when it lies in [0,1]) it is the value; no
\* line-rate and no tests give 0.0; a failed instrumented run gives 0.0.
C8_FallbackWhenNoLineRate ==
    Called("tests") =>
        /\ Returned("tests")
        /\ SuiteRun <=> (~Obtained /\ world.fallback.testsPresent)
        /\ StartedBy("coverage xml") => SuiteRun
        /\ \A i \in 1..Len(Tried) :
              (IsFirstUsable(i) /\ RateText(world.fs[Tried[i]]) \in Numeric
                 /\ InUnit(FloatLiterals[RateText(world.fs[Tried[i]])]))
                  => out["tests"].value = FloatLiterals[RateText(world.fs[Tried[i]])]
        /\ (~Obtained /\ ~world.fallback.testsPresent) => out["tests"].value = Zero
        /\ (SuiteRun /\ InstrumentedFails) => out["tests"].value = Zero

\* A report exists but cannot be parsed, tests exist, and the suite was run.
C8_Witness ==
    /\ Called("tests")
    /\ world.fs["coverage.xml"].kind = "malformed"
    /\ world.fallback.testsPresent
    /\ SuiteRun

\* C9: with a source file that cannot be opened counted as having no
\* docstring, score_docs returns 0.6 x README-score + 0.4 x docstring-ratio.
C9_DocsTolerantOfReadErrors ==
    (Called("docs") /\ world.readme.kind # "unreadable") =>
        /\ Returned("docs")
        /\ LET k == Cardinality(world.readme.words)
               n == Len(world.py)
               h == Cardinality({i \in 1..n : world.py[i].readable
                                               /\ world.py[i].head # "none"})
           IN  out["docs"].value =
                   IF n = 0 THEN F(3 * k, 20) ELSE F(3 * k * n + 8 * h, 20 * n)

\* C10: every run calls each collector exactly once, in the order structure,
\* tests, dead_code, security, docs, ci, each after the one before it has
\* returned, and combines only once all six results exist.
C10_EachCollectorOnceInOrder ==
    /\ \A m \in Range(Metrics) : calls[m] <= 1
    /\ \A i \in 1..(Len(Metrics) - 1) :
          Called(Metrics[i + 1]) => Called(Metrics[i]) /\ Returned(Metrics[i])
    /\ Returned("final_score") => \A m \in Range(Metrics) : Returned(m)
    /\ Halted => \A m \in Range(Metrics) : calls[m] = 1

====
